---- MODULE Spec2Model ----
\* A model of node-elm-compiler's src/index.ts: argument synthesis, error
\* classification and the four entry points compile, compileSync,
\* compileToString and compileToStringSync.
EXTENDS Integers, Sequences, FiniteSets, TLC

\* ------------------------------------------------------------------
\* Bounds
\* ------------------------------------------------------------------
MaxOptKeys == 2
MaxCalls == 2
MaxChunks == 2

VARIABLES
  ph,       \* position of the single-function harnesses
  arg,      \* the input drawn for the function under check
  ret,      \* what the function returned or threw
  opts,     \* the options object the caller shares between its calls
  srcs,     \* the sources argument the caller passes
  call,     \* per call: position, promise, process and buffers
  files,    \* temp files: path and content
  uncaught  \* an exception escaped every handler of the host

vars == <<ph, arg, ret, opts, srcs, call, files, uncaught>>

\* ------------------------------------------------------------------
\* JavaScript values.
\* A string is a sequence of atoms; the characters "." and "/" (and the
\* characters JSON escapes) are always atoms of their own, so that path
\* and quoting functions can be computed on them.
\* A value is [t |-> typeof-like tag, v |-> sequence of strings]:
\*   string s    -> v = <<s>>        array a  -> v = a
\*   boolean b   -> v = <<<<"true">>>> or <<<<"false">>>>
\*   function f  -> v = <<<<name of f>>>>
\* ------------------------------------------------------------------
Str(a) == <<a>>
EmptyStr == <<>>
Undefined == [t |-> "undefined", v |-> <<>>]
BoolV(b) == [t |-> "boolean", v |-> <<Str(IF b THEN "true" ELSE "false")>>]
StrV(s) == [t |-> "string", v |-> <<s>>]
ArrV(a) == [t |-> "array", v |-> a]
FnV(name) == [t |-> "function", v |-> <<Str(name)>>]
NumV(n) == [t |-> "number", v |-> <<Str(n)>>]
ObjV == [t |-> "object", v |-> <<>>]

\* A local constant: body(x) with x the value of v, computed once.
bind(v, body(_)) == CHOOSE y \in { body(x) : x \in {v} } : TRUE

Truthy(val) ==
  CASE val.t = "undefined" -> FALSE
    [] val.t = "boolean" -> val.v[1] = Str("true")
    [] val.t = "string" -> val.v[1] # EmptyStr
    [] val.t = "number" -> val.v[1] # Str("0")
    [] OTHER -> TRUE

\* Objects are sequences of [k, v] pairs with distinct keys, in the
\* insertion order that lodash's iteration follows.
HasKey(obj, key) == \E i \in 1..Len(obj) : obj[i].k = key
Get(obj, key) ==
  IF HasKey(obj, key)
  THEN obj[CHOOSE i \in 1..Len(obj) : obj[i].k = key].v
  ELSE Undefined
Set(obj, key, val) ==
  IF HasKey(obj, key)
  THEN [i \in 1..Len(obj) |-> IF obj[i].k = key THEN [k |-> key, v |-> val] ELSE obj[i]]
  ELSE Append(obj, [k |-> key, v |-> val])

\* Thrown values and results of functions that may throw.
NoErr == [t |-> "none", hasCode |-> FALSE, code |-> "", hasMsg |-> FALSE, msg |-> EmptyStr]
ErrorObj(m) == [t |-> "Error", hasCode |-> FALSE, code |-> "", hasMsg |-> TRUE, msg |-> m]
ThrownString(s) == [t |-> "string", hasCode |-> FALSE, code |-> "", hasMsg |-> FALSE, msg |-> s]
SysError(c, m) == [t |-> "Error", hasCode |-> TRUE, code |-> c, hasMsg |-> TRUE, msg |-> m]
Ok(val) == [threw |-> FALSE, val |-> val, err |-> NoErr]
Throw(e) == [threw |-> TRUE, val |-> <<>>, err |-> e]

\* ------------------------------------------------------------------
\* Options (index.ts 101-135)
\* ------------------------------------------------------------------
defaultOptions ==
  << [k |-> "spawn", v |-> FnV("cross-spawn")],
     [k |-> "runtimeOptions", v |-> Undefined],
     [k |-> "cwd", v |-> Undefined],
     [k |-> "pathToElm", v |-> Undefined],
     [k |-> "help", v |-> Undefined],
     [k |-> "output", v |-> Undefined],
     [k |-> "report", v |-> Undefined],
     [k |-> "debug", v |-> Undefined],
     [k |-> "verbose", v |-> BoolV(FALSE)],
     [k |-> "processOpts", v |-> Undefined],
     [k |-> "docs", v |-> Undefined],
     [k |-> "optimize", v |-> Undefined] >>

supportedOptions == { defaultOptions[i].k : i \in 1..Len(defaultOptions) }

\* _.defaults(dest, source): a key of source is assigned only where dest
\* has no defined value for it; a new key is added after the present ones.
defaults(dest, source) ==
  [i \in 1..Len(dest) |->
     IF dest[i].v = Undefined /\ HasKey(source, dest[i].k)
     THEN [k |-> dest[i].k, v |-> Get(source, dest[i].k)]
     ELSE dest[i]]
  \o SelectSeq(source, LAMBDA pair : ~HasKey(dest, pair.k))

prepareOptions(options, spawnFn) ==
  defaults(defaults(<<[k |-> "spawn", v |-> spawnFn]>>, options), defaultOptions)

\* ./options processOptions: the compiler path is the explicit override,
\* else the fixed default name.
processOptions(options) ==
  [pathToElm |-> IF Truthy(Get(options, "pathToElm"))
                 THEN Get(options, "pathToElm").v[1] ELSE Str("elm"),
   processOpts |-> Get(options, "processOpts")]

\* ------------------------------------------------------------------
\* Argument synthesis (index.ts 151-164, 195-225)
\* ------------------------------------------------------------------
\* (the source's backquotes around the option name are written ' here)
RemovedMessage(opt) ==
  <<"node-elm-compiler received the '", opt,
    "' option, but that was removed in Elm 0.19. Try re-running without passing the '",
    opt, "' option.">>
RenamedMessage(opt) ==
  <<"node-elm-compiler received the '", opt,
    "' option, but that was renamed to 'pathToElm' in Elm 0.19. Try re-running after renaming the parameter to 'pathToElm'.">>
UnrecognizedMessage(opt) ==
  <<"node-elm-compiler was given an unrecognized Elm compiler option: ", opt>>

\* optionToArgs without the check against supportedOptions.
optionToArgs_NoCheck(value, opt) ==
  IF Truthy(value)
  THEN CASE opt = "help" -> Ok(<<Str("--help")>>)
         [] opt = "output" -> Ok(<<Str("--output")>> \o value.v)
         [] opt = "report" -> Ok(<<Str("--report")>> \o value.v)
         [] opt = "debug" -> Ok(<<Str("--debug")>>)
         [] opt = "docs" -> Ok(<<Str("--docs")>> \o value.v)
         [] opt = "optimize" -> Ok(<<Str("--optimize")>>)
         [] opt = "runtimeOptions" -> Ok(<<Str("+RTS")>> \o value.v \o <<Str("-RTS")>>)
         [] OTHER -> Ok(<<>>)
  ELSE Ok(<<>>)

\* The callback of _.map in compilerArgsFromOptions, for one key.
optionToArgs(value, opt) ==
  IF Truthy(value)
  THEN CASE opt = "help" -> Ok(<<Str("--help")>>)
         [] opt = "output" -> Ok(<<Str("--output")>> \o value.v)
         [] opt = "report" -> Ok(<<Str("--report")>> \o value.v)
         [] opt = "debug" -> Ok(<<Str("--debug")>>)
         [] opt = "docs" -> Ok(<<Str("--docs")>> \o value.v)
         [] opt = "optimize" -> Ok(<<Str("--optimize")>>)
         [] opt = "runtimeOptions" -> Ok(<<Str("+RTS")>> \o value.v \o <<Str("-RTS")>>)
         [] OTHER ->
              IF opt \notin supportedOptions
              THEN IF opt = "yes" THEN Throw(ErrorObj(RemovedMessage(opt)))
                   ELSE IF opt = "warn" THEN Throw(ErrorObj(RemovedMessage(opt)))
                   ELSE IF opt = "pathToMake" THEN Throw(ErrorObj(RenamedMessage(opt)))
                   ELSE Throw(ErrorObj(UnrecognizedMessage(opt)))
              ELSE Ok(<<>>)
  ELSE Ok(<<>>)

\* _.flatten(_.map(options, callback)): the keys in order, the first throw
\* ending the iteration.
RECURSIVE mapFlatten(_, _, _)
mapFlatten(options, i, acc) ==
  IF i > Len(options) THEN Ok(acc)
  ELSE bind(optionToArgs(options[i].v, options[i].k), LAMBDA r :
         IF r.threw THEN r ELSE mapFlatten(options, i + 1, acc \o r.val))

compilerArgsFromOptions(options) == mapFlatten(options, 1, <<>>)

prepareSources(sources) ==
  IF ~(sources.t = "array" \/ sources.t = "string")
  THEN Throw(ThrownString(Str("compile() received neither an Array nor a String for its sources argument.")))
  ELSE Ok(sources.v)

\* prepareProcessArgs with the flag tokens put before the sources.
prepareProcessArgs_FlagsFirst(sources, options) ==
  bind(prepareSources(sources), LAMBDA preparedSources :
    IF preparedSources.threw THEN preparedSources
    ELSE bind(compilerArgsFromOptions(options), LAMBDA compilerArgs :
           IF compilerArgs.threw THEN compilerArgs
           ELSE Ok(<<Str("make")>> \o compilerArgs.val \o preparedSources.val)))

prepareProcessArgs(sources, options) ==
  bind(prepareSources(sources), LAMBDA preparedSources :
    IF preparedSources.threw THEN preparedSources
    ELSE bind(compilerArgsFromOptions(options), LAMBDA compilerArgs :
           IF compilerArgs.threw THEN compilerArgs
           ELSE Ok(<<Str("make")>> \o preparedSources.val \o compilerArgs.val)))

\* ------------------------------------------------------------------
\* Error classification (index.ts 166-183)
\* ------------------------------------------------------------------
\* JSON.stringify of a string: quotes around the escaped characters.
JsonEscapeAtom(a) ==
  CASE a = "\"" -> "\\\""
    [] a = "\\" -> "\\\\"
    [] a = "\n" -> "\\n"
    [] OTHER -> a
JsonStringify(s) == <<"\"">> \o [i \in 1..Len(s) |-> JsonEscapeAtom(s[i])] \o <<"\"">>

\* String(err) as used by `"..." + err`.
ToStringErr(err) ==
  CASE err.t = "Error" -> <<"Error", ": ">> \o err.msg
    [] err.t = "string" -> err.msg
    [] OTHER -> <<"[object Object]">>

TypeErrorNull == ErrorObj(<<"Cannot read properties of null">>)

\* compilerErrorToString without the default case of its switch.
compilerErrorToString_NoDefault(err, pathToElm) ==
  IF err.t = "null" THEN Throw(TypeErrorNull)
  ELSE IF err.t \in {"Error", "object"} /\ err.hasCode /\ err.code = "ENOENT"
  THEN Ok(<<"Could not find Elm compiler \"">> \o pathToElm \o <<"\". Is it installed?">>)
  ELSE IF err.t \in {"Error", "object"} /\ err.hasCode /\ err.code = "EACCES"
  THEN Ok(<<"Elm compiler \"">> \o pathToElm
          \o <<"\" did not have permission to run. Do you need to give it executable permissions?">>)
  ELSE IF err.t \in {"Error", "object"} /\ err.hasMsg
  THEN Ok(JsonStringify(err.msg))
  ELSE Ok(<<"Exception thrown when attempting to run Elm compiler ">> \o JsonStringify(pathToElm))

compilerErrorToString(err, pathToElm) ==
  IF err.t = "null" THEN Throw(TypeErrorNull)
  ELSE IF err.t \in {"Error", "object"} /\ err.hasCode
  THEN CASE err.code = "ENOENT" ->
              Ok(<<"Could not find Elm compiler \"">> \o pathToElm \o <<"\". Is it installed?">>)
         [] err.code = "EACCES" ->
              Ok(<<"Elm compiler \"">> \o pathToElm
                 \o <<"\" did not have permission to run. Do you need to give it executable permissions?">>)
         [] OTHER ->
              Ok(<<"Error attempting to run Elm compiler \"">> \o pathToElm \o <<"\":\n">>
                 \o ToStringErr(err))
  ELSE IF err.t \in {"Error", "object"} /\ err.hasMsg
  THEN Ok(JsonStringify(err.msg))
  ELSE Ok(<<"Exception thrown when attempting to run Elm compiler ">> \o JsonStringify(pathToElm))

\* ------------------------------------------------------------------
\* Invocation (index.ts 15-38, 137-149)
\* ------------------------------------------------------------------
typeofName(val) == IF val.t = "array" THEN "object" ELSE val.t

NoInvocation ==
  [threw |-> FALSE, err |-> NoErr, spawn |-> FALSE, fn |-> EmptyStr,
   path |-> EmptyStr, args |-> <<>>, processOpts |-> Undefined]

\* runCompiler with the process started before the arguments are built.
runCompiler_SpawnFirst(sources, options, processedOptions) ==
  IF Get(options, "spawn").t # "function"
  THEN [NoInvocation EXCEPT !.threw = TRUE,
          !.err = ThrownString(<<"options.spawn was a(n) ", typeofName(Get(options, "spawn")),
                                 " instead of a function.">>)]
  ELSE bind(prepareProcessArgs(sources, options), LAMBDA processArgs :
         [NoInvocation EXCEPT !.threw = processArgs.threw, !.err = processArgs.err,
            !.spawn = TRUE,
            !.fn = Get(options, "spawn").v[1],
            !.path = processedOptions.pathToElm,
            !.args = processArgs.val,
            !.processOpts = processedOptions.processOpts])

\* runCompiler up to and including the call of options.spawn: either it
\* throws, or it calls fn(path, args, processOpts).
runCompiler(sources, options, processedOptions) ==
  IF Get(options, "spawn").t # "function"
  THEN [NoInvocation EXCEPT !.threw = TRUE,
          !.err = ThrownString(<<"options.spawn was a(n) ", typeofName(Get(options, "spawn")),
                                 " instead of a function.">>)]
  ELSE bind(prepareProcessArgs(sources, options), LAMBDA processArgs :
         IF processArgs.threw
         THEN [NoInvocation EXCEPT !.threw = TRUE, !.err = processArgs.err]
         ELSE [NoInvocation EXCEPT !.spawn = TRUE,
                 !.fn = Get(options, "spawn").v[1],
                 !.path = processedOptions.pathToElm,
                 !.args = processArgs.val,
                 !.processOpts = processedOptions.processOpts])

\* The catch clause of compile and compileSync: what is thrown onwards.
compileCatch(err, pathToElm) ==
  bind(compilerErrorToString(err, pathToElm), LAMBDA text :
    IF text.threw THEN text.err ELSE ErrorObj(text.val))

\* The error of a process that could not be started.
SpawnError(code) == SysError(code, <<"spawn ", "elm", " ", code>>)

\* compile / compileSync (they differ in the bound function only): the
\* invocation made, and what is thrown to the caller when spawnThrew or
\* runCompiler threw.
compile(sources, options, spawnFn, spawnThrew, code) ==
  bind(processOptions(options), LAMBDA processedOptions :
  bind(prepareOptions(options, spawnFn), LAMBDA optionsWithDefaults :
  bind(runCompiler(sources, optionsWithDefaults, processedOptions), LAMBDA inv :
    IF inv.threw
    THEN [threw |-> TRUE, err |-> compileCatch(inv.err, processedOptions.pathToElm),
          inv |-> inv, failed |-> FALSE]
    ELSE IF spawnThrew
    THEN [threw |-> TRUE,
          err |-> compileCatch(SpawnError(code), processedOptions.pathToElm),
          inv |-> inv, failed |-> TRUE]
    ELSE [threw |-> FALSE, err |-> NoErr, inv |-> inv, failed |-> FALSE])))

\* ------------------------------------------------------------------
\* Inputs
\* ------------------------------------------------------------------
AElm == <<"a", ".", "elm">>
BElm == <<"b", ".", "elm">>
SourceChoices ==
  { StrV(AElm), ArrV(<<AElm, BElm>>), ArrV(<<>>), NumV("5"), Undefined }

OptPool ==
  { [k |-> "output", v |-> StrV(<<"out", ".", "js">>)],
    [k |-> "debug", v |-> BoolV(TRUE)],
    [k |-> "optimize", v |-> BoolV(FALSE)],
    [k |-> "report", v |-> StrV(Str("json"))],
    [k |-> "runtimeOptions", v |-> ArrV(<<Str("-A128M"), Str("-H128M")>>)],
    [k |-> "runtimeOptions", v |-> ArrV(<<>>)],
    [k |-> "verbose", v |-> BoolV(TRUE)],
    [k |-> "spawn", v |-> FnV("double")],
    [k |-> "spawn", v |-> StrV(Str("notfn"))],
    [k |-> "foo", v |-> StrV(Str("bar"))],
    [k |-> "foo", v |-> BoolV(FALSE)],
    [k |-> "yes", v |-> BoolV(TRUE)],
    [k |-> "yes", v |-> BoolV(FALSE)],
    [k |-> "warn", v |-> BoolV(TRUE)],
    [k |-> "pathToMake", v |-> StrV(<<"elm-make">>)],
    [k |-> "pathToMake", v |-> StrV(EmptyStr)] }

DistinctKeys(obj) == \A i, j \in 1..Len(obj) : i # j => obj[i].k # obj[j].k
OptionObjects ==
  UNION { { o \in [1..n -> OptPool] : DistinctKeys(o) } : n \in 0..MaxOptKeys }

ErrChoices ==
  { [t |-> t, hasCode |-> c # "", code |-> c, hasMsg |-> m # EmptyStr, msg |-> m] :
      t \in {"Error", "object"},
      c \in {"", "ENOENT", "EACCES", "EPERM"},
      m \in {EmptyStr, <<"boom">>, <<"say ", "\"", "hi", "\"">>} }
  \cup { ThrownString(<<"boom">>), ThrownString(EmptyStr),
         [NoErr EXCEPT !.t = "undefined"], [NoErr EXCEPT !.t = "null"],
         [NoErr EXCEPT !.t = "number"] }
PathChoices == { Str("elm"), <<"/", "opt", "/", "elm">>, <<"my ", "\"", "elm", "\"">> }

NoArg == [sources |-> Undefined, options |-> <<>>, err |-> NoErr, path |-> EmptyStr]
IdleCalls == <<>>

\* ------------------------------------------------------------------
\* prepareProcessArgs and compile's argument path, on drawn inputs
\* ------------------------------------------------------------------
ArgsInit ==
  /\ ph = "ready"
  /\ arg \in { [NoArg EXCEPT !.sources = s, !.options = o] :
                 s \in SourceChoices, o \in OptionObjects }
  /\ ret = Ok(<<>>)
  /\ opts = <<>> /\ srcs = Undefined /\ call = IdleCalls
  /\ files = <<>> /\ uncaught = FALSE

\* compiler._prepareProcessArgs(sources, options), as the test calls it
CallPrepareProcessArgs ==
  /\ ph = "ready"
  /\ ret' = prepareProcessArgs(arg.sources, arg.options)
  /\ ph' = "args"
  /\ UNCHANGED <<arg, opts, srcs, call, files, uncaught>>

\* compile(sources, options) up to the call of the spawn function
CallCompileArgs ==
  /\ ph = "ready"
  /\ \E r \in { compile(arg.sources, arg.options, FnV("cross-spawn"), FALSE, "") } :
       ret' = IF r.threw THEN Throw(r.err) ELSE Ok(r.inv.args)
  /\ ph' = "compile"
  /\ UNCHANGED <<arg, opts, srcs, call, files, uncaught>>

ArgsNext == CallPrepareProcessArgs \/ CallCompileArgs
SpecArgs == ArgsInit /\ [][ArgsNext]_vars

\* ------------------------------------------------------------------
\* compilerErrorToString on drawn inputs
\* ------------------------------------------------------------------
ErrInit ==
  /\ ph = "ready"
  /\ arg \in { [NoArg EXCEPT !.err = e, !.path = p] : e \in ErrChoices, p \in PathChoices }
  /\ ret = Ok(<<>>)
  /\ opts = <<>> /\ srcs = Undefined /\ call = IdleCalls
  /\ files = <<>> /\ uncaught = FALSE

CallCompilerErrorToString ==
  /\ ph = "ready"
  /\ ret' = compilerErrorToString(arg.err, arg.path)
  /\ ph' = "classified"
  /\ UNCHANGED <<arg, opts, srcs, call, files, uncaught>>

ErrNext == CallCompilerErrorToString
SpecErr == ErrInit /\ [][ErrNext]_vars

\* ------------------------------------------------------------------
\* Paths and temp files (index.ts 185-191, temp.open / temp.openSync)
\* ------------------------------------------------------------------
RECURSIVE stripSlashes(_)
stripSlashes(p) ==
  IF Len(p) > 0 /\ p[Len(p)] = "/" THEN stripSlashes(SubSeq(p, 1, Len(p) - 1)) ELSE p

Greatest(S) == CHOOSE i \in S : \A j \in S : j <= i

\* extname taking the first dot of the last segment instead of the last.
extname_FirstDot(path) ==
  LET q == stripSlashes(path)
      slashes == { i \in 1..Len(q) : q[i] = "/" }
      start == IF slashes = {} THEN 1 ELSE Greatest(slashes) + 1
      dots == { i \in start..Len(q) : q[i] = "." }
  IN IF dots = {} THEN EmptyStr
     ELSE LET d == CHOOSE i \in dots : \A j \in dots : i <= j
          IN IF d = start THEN EmptyStr
             ELSE SubSeq(q, d, Len(q))

\* path.extname: from the last dot of the last segment, unless that
\* segment has no dot, starts with its only dot, or is "..".
extname(path) ==
  LET q == stripSlashes(path)
      slashes == { i \in 1..Len(q) : q[i] = "/" }
      start == IF slashes = {} THEN 1 ELSE Greatest(slashes) + 1
      dots == { i \in start..Len(q) : q[i] = "." }
  IN IF dots = {} THEN EmptyStr
     ELSE LET d == Greatest(dots)
          IN IF d = start THEN EmptyStr
             ELSE IF d = Len(q) /\ d = start + 1 /\ q[start] = "." THEN EmptyStr
             ELSE SubSeq(q, d, Len(q))

DotJs == <<".", "js">>

getSuffix(outputPath, defaultSuffix) ==
  IF Truthy(outputPath)
  THEN IF extname(outputPath.v[1]) # EmptyStr THEN extname(outputPath.v[1]) ELSE defaultSuffix
  ELSE defaultSuffix

\* temp.open({suffix}): the n-th file of the process; its generated name
\* carries a dot of its own before the suffix.
tempPath(n, suffix) == <<"/", "tmp", "/", ToString(n), ".", "r">> \o suffix

PipeStdio == [t |-> "object", v |-> <<Str("stdio: pipe")>>]

\* ------------------------------------------------------------------
\* The entry points as a state machine
\* ------------------------------------------------------------------
Calls == 1..MaxCalls

IdleCall ==
  [pc |-> "idle", kind |-> "none", suffix |-> EmptyStr, info |-> EmptyStr,
   inv |-> NoInvocation, failed |-> FALSE,
   proc |-> "none", exitCode |-> -1,
   pipeOut |-> <<>>, pipeErr |-> <<>>, emitted |-> 0, arrived |-> <<>>,
   output |-> EmptyStr, classified |-> FALSE, atClass |-> EmptyStr, arrivedAtClass |-> <<>>,
   promise |-> "none", settled |-> 0, value |-> EmptyStr, reason |-> NoErr,
   threw |-> FALSE, returned |-> "none", readPath |-> EmptyStr]

\* resolve / reject of the promise of compileToString
reject(r, e) ==
  [r EXCEPT !.settled = @ + 1,
            !.promise = IF r.promise = "pending" THEN "rejected" ELSE @,
            !.reason = IF r.promise = "pending" THEN e ELSE @]
resolve(r, text) ==
  [r EXCEPT !.settled = @ + 1,
            !.promise = IF r.promise = "pending" THEN "resolved" ELSE @,
            !.value = IF r.promise = "pending" THEN text ELSE @]

\* What the spawn facility does when called: the process starts, or the
\* facility throws, or it returns a handle that will emit 'error'.
SpawnOutcomes ==
  { [how |-> "ok", code |-> ""],
    [how |-> "throws", code |-> "ENOENT"], [how |-> "throws", code |-> "EACCES"],
    [how |-> "errorEvent", code |-> "ENOENT"] }
\* What spawn.sync returns: an exit status, or a result with no status and
\* its error field set.
SyncOutcomes == { 0, 1, -1 }

\* The path given to the compiler after --output, if any.
outputArg(args) ==
  IF \E i \in 1..(Len(args) - 1) : args[i] = Str("--output")
  THEN args[(CHOOSE i \in 1..(Len(args) - 1) : args[i] = Str("--output")) + 1]
  ELSE EmptyStr

\* The compiler writes its artifact to the --output path when it succeeds.
artifact(c) == <<"artifact of process ", ToString(c)>>
writeFile(fs, path, text) ==
  [i \in 1..Len(fs) |-> IF fs[i].path = path THEN [path |-> path, content |-> text] ELSE fs[i]]
readFile(fs, path) ==
  IF \E i \in 1..Len(fs) : fs[i].path = path
  THEN fs[CHOOSE i \in 1..Len(fs) : fs[i].path = path].content
  ELSE EmptyStr

MayStart(c) == call[c].pc = "idle" /\ (IF c = 1 THEN TRUE ELSE call[c - 1].pc # "idle")
RECURSIVE emittedUpTo(_)
emittedUpTo(n) == IF n = 0 THEN 0 ELSE call[n].emitted + emittedUpTo(n - 1)
TotalEmitted == emittedUpTo(MaxCalls)

\* Exit codes delivered with 'close': 0, 1, and null (written -1) for a
\* process ended by a signal.
ExitCodes == {0, 1, -1}

\* The test of line 77, with only positive codes taken as failures.
compilationFailed_Positive(exitCode) == exitCode > 0
\* The test of line 77: exitCode !== 0
compilationFailed(exitCode) == exitCode # 0

\* The child-process event on which compileToString settles (line 76).
completionEvent_Exit == "exit"
completionEvent == "close"

MainOptionChoices ==
  { <<>>,
    << [k |-> "verbose", v |-> BoolV(TRUE)], [k |-> "output", v |-> StrV(<<"compiled", ".", "html">>)] >>,
    << [k |-> "output", v |-> StrV(<<"/", "dev", "/", "null">>)] >>,
    << [k |-> "output", v |-> StrV(<<"build", ".", "d", "/", ".", "elm">>)] >>,
    << [k |-> "foo", v |-> StrV(Str("bar"))] >>,
    << [k |-> "yes", v |-> BoolV(FALSE)] >>,
    << [k |-> "spawn", v |-> FnV("double")] >>,
    << [k |-> "spawn", v |-> StrV(Str("notfn"))] >> }
MainSourceChoices == { StrV(AElm), NumV("5") }

Init ==
  /\ ph = "run" /\ arg = NoArg /\ ret = Ok(<<>>)
  /\ opts \in MainOptionChoices
  /\ srcs \in MainSourceChoices
  /\ call = [c \in Calls |-> IdleCall]
  /\ files = <<>>
  /\ uncaught = FALSE

\* After a spawn that did not throw: the handle's process state.
started(outcome) == IF outcome.how = "errorEvent" THEN "failing" ELSE "running"

\* compile(sources, options) called by the user: lines 15-26
CallCompile(c) ==
  /\ MayStart(c)
  /\ \E outcome \in SpawnOutcomes :
       \E r \in { compile(srcs, opts, FnV("cross-spawn"), outcome.how = "throws", outcome.code) } :
          call' = [call EXCEPT ![c] =
            [@ EXCEPT !.kind = "compile", !.inv = r.inv,
                      !.failed = r.failed \/ (~r.threw /\ outcome.how = "errorEvent"),
                      !.threw = r.threw, !.reason = r.err,
                      !.returned = IF r.threw THEN "none" ELSE "child",
                      !.proc = IF r.threw THEN "none" ELSE started(outcome),
                      !.pc = IF r.threw THEN "done" ELSE "running"]]
  /\ UNCHANGED <<ph, arg, ret, opts, srcs, files, uncaught>>

\* compileSync(sources, options): lines 28-38
CallCompileSync(c) ==
  /\ MayStart(c)
  /\ \E status \in SyncOutcomes :
       \E r \in { compile(srcs, opts, FnV("cross-spawn.sync"), FALSE, "") } :
          /\ call' = [call EXCEPT ![c] =
               [@ EXCEPT !.kind = "compileSync", !.inv = r.inv,
                         !.failed = ~r.threw /\ status = -1,
                         !.threw = r.threw, !.reason = r.err,
                         !.returned = IF r.threw THEN "none" ELSE "result",
                         !.exitCode = IF r.threw THEN -1 ELSE status,
                         !.pc = "done"]]
          /\ files' = IF ~r.threw /\ status = 0
                      THEN writeFile(files, outputArg(r.inv.args), artifact(c))
                      ELSE files
  /\ UNCHANGED <<ph, arg, ret, opts, srcs, uncaught>>

\* compileToStringSync(sources, options): lines 91-99
CallCompileToStringSync(c) ==
  /\ MayStart(c)
  /\ \E status \in SyncOutcomes :
       \E suffix \in { getSuffix(Get(opts, "output"), DotJs) } :
       \E file \in { tempPath(Len(files) + 1, suffix) } :
       \E created \in { Append(files, [path |-> file, content |-> EmptyStr]) } :
       \E options \in { Set(opts, "output", StrV(file)) } :
       \E r \in { compile(srcs, options, FnV("cross-spawn.sync"), FALSE, "") } :
       \E written \in { IF ~r.threw /\ status = 0
                        THEN writeFile(created, outputArg(r.inv.args), artifact(c))
                        ELSE created } :
          /\ opts' = options
          /\ files' = written
          /\ call' = [call EXCEPT ![c] =
               [@ EXCEPT !.kind = "compileToStringSync", !.suffix = suffix, !.info = file,
                         !.inv = r.inv, !.failed = ~r.threw /\ status = -1,
                         !.threw = r.threw, !.reason = r.err,
                         !.exitCode = IF r.threw THEN -1 ELSE status,
                         !.returned = IF r.threw THEN "none" ELSE "string",
                         !.readPath = IF r.threw THEN EmptyStr ELSE file,
                         !.value = IF r.threw THEN EmptyStr ELSE readFile(written, file),
                         !.pc = "done"]]
  /\ UNCHANGED <<ph, arg, ret, srcs, uncaught>>

\* compileToString(sources, options) up to the call of temp.open: lines 45-49
CallCompileToString(c) ==
  /\ MayStart(c)
  /\ call' = [call EXCEPT ![c] =
       [@ EXCEPT !.kind = "compileToString",
                 !.suffix = getSuffix(Get(opts, "output"), DotJs),
                 !.promise = "pending", !.returned = "promise", !.pc = "opening"]]
  /\ UNCHANGED <<ph, arg, ret, opts, srcs, files, uncaught>>

\* The callback of temp.open when the file could not be created: lines 50-52
TempOpenFailed(c) ==
  /\ call[c].pc = "opening"
  /\ call' = [call EXCEPT ![c] =
       [reject(@, ErrorObj(<<"temp.open failed">>)) EXCEPT !.pc = "done"]]
  /\ UNCHANGED <<ph, arg, ret, opts, srcs, files, uncaught>>

\* The callback of temp.open with a file: lines 54-76
TempOpened(c) ==
  /\ call[c].pc = "opening"
  /\ \E outcome \in SpawnOutcomes :
       \E path \in { tempPath(Len(files) + 1, call[c].suffix) } :
       \E options \in { Set(Set(opts, "output", StrV(path)), "processOpts", PipeStdio) } :
       \E r \in { compile(srcs, options, FnV("cross-spawn"), outcome.how = "throws", outcome.code) } :
       \E base \in { [call[c] EXCEPT !.info = path, !.inv = r.inv,
                        !.failed = r.failed \/ (~r.threw /\ outcome.how = "errorEvent")] } :
          /\ opts' = options
          /\ files' = Append(files, [path |-> path, content |-> EmptyStr])
          /\ call' = [call EXCEPT ![c] =
               IF r.threw
               THEN [reject(base, r.err) EXCEPT !.pc = "done"]
               ELSE [base EXCEPT !.proc = started(outcome), !.pc = "running"]]
  /\ UNCHANGED <<ph, arg, ret, srcs, uncaught>>

\* The compiler process writes a chunk to its stdout or stderr pipe.
ProcWrite(c, stream) ==
  /\ call[c].kind = "compileToString" /\ call[c].proc = "running"
  /\ TotalEmitted < MaxChunks
  /\ LET chunk == Str(ToString(TotalEmitted + 1))
     IN call' = [call EXCEPT ![c] =
          [@ EXCEPT !.emitted = @ + 1,
                    !.pipeOut = IF stream = "stdout" THEN Append(@, chunk) ELSE @,
                    !.pipeErr = IF stream = "stderr" THEN Append(@, chunk) ELSE @]]
  /\ UNCHANGED <<ph, arg, ret, opts, srcs, files, uncaught>>

\* A 'data' event of stdout or stderr: lines 69-74
DataEvent(c, stream) ==
  /\ call[c].kind = "compileToString"
  /\ IF stream = "stdout" THEN call[c].pipeOut # <<>> ELSE call[c].pipeErr # <<>>
  /\ LET chunk == IF stream = "stdout" THEN Head(call[c].pipeOut) ELSE Head(call[c].pipeErr)
     IN call' = [call EXCEPT ![c] =
          [@ EXCEPT !.output = @ \o chunk,
                    !.arrived = Append(@, chunk),
                    !.pipeOut = IF stream = "stdout" THEN Tail(@) ELSE @,
                    !.pipeErr = IF stream = "stderr" THEN Tail(@) ELSE @]]
  /\ UNCHANGED <<ph, arg, ret, opts, srcs, files, uncaught>>

\* The compiler process ends; on success it has written its artifact.
ProcExit(c, code) ==
  /\ call[c].proc = "running"
  /\ call' = [call EXCEPT ![c] = [@ EXCEPT !.proc = "exited", !.exitCode = code]]
  /\ files' = IF code = 0 THEN writeFile(files, outputArg(call[c].inv.args), artifact(c))
              ELSE files
  /\ UNCHANGED <<ph, arg, ret, opts, srcs, uncaught>>

\* The completion handler of compileToString: lines 76-86.  'close' is
\* emitted once the process has ended and its pipes are drained, 'exit'
\* as soon as it has ended.
CompletionEvent(c) ==
  /\ call[c].kind = "compileToString" /\ call[c].pc = "running"
  /\ call[c].proc = "exited"
  /\ completionEvent = "close" => (call[c].pipeOut = <<>> /\ call[c].pipeErr = <<>>)
  /\ \E seen \in { [call[c] EXCEPT !.classified = TRUE, !.atClass = call[c].output,
                        !.arrivedAtClass = call[c].arrived] } :
       call' = [call EXCEPT ![c] =
          IF compilationFailed(call[c].exitCode)
          THEN [reject(seen, ErrorObj(<<"Compilation failed", "\n">> \o call[c].output))
                  EXCEPT !.pc = "done"]
          ELSE [seen EXCEPT !.pc = "reading", !.readPath = call[c].info]]
  /\ UNCHANGED <<ph, arg, ret, opts, srcs, files, uncaught>>

\* The callback of fs.readFile: lines 83-85
ReadFileCallback(c, failed) ==
  /\ call[c].pc = "reading"
  /\ call' = [call EXCEPT ![c] =
       [(IF failed THEN reject(@, ErrorObj(<<"readFile failed">>))
         ELSE resolve(@, readFile(files, call[c].readPath))) EXCEPT !.pc = "done"]]
  /\ UNCHANGED <<ph, arg, ret, opts, srcs, files, uncaught>>

\* The 'error' event of a handle whose process could not be started: the
\* listener of line 22 throws from inside the event dispatch, outside
\* every try block, and the handle emits nothing afterwards.
ErrorEvent(c) ==
  /\ call[c].proc = "failing"
  /\ call' = [call EXCEPT ![c] = [@ EXCEPT !.proc = "errored"]]
  /\ uncaught' = TRUE
  /\ UNCHANGED <<ph, arg, ret, opts, srcs, files>>

\* The process of a handle returned by compile ends (the caller owns it).
HandleClosed(c) ==
  /\ call[c].kind = "compile" /\ call[c].pc = "running" /\ call[c].proc = "exited"
  /\ call' = [call EXCEPT ![c] = [@ EXCEPT !.pc = "done", !.proc = "closed"]]
  /\ UNCHANGED <<ph, arg, ret, opts, srcs, files, uncaught>>

\* One call of any entry point, with everything its process may do.
Next ==
  \/ CallCompile(1)
  \/ CallCompileSync(1)
  \/ CallCompileToStringSync(1)
  \/ CallCompileToString(1)
  \/ TempOpenFailed(1)
  \/ TempOpened(1)
  \/ \E stream \in {"stdout", "stderr"} : ProcWrite(1, stream)
  \/ \E stream \in {"stdout", "stderr"} : DataEvent(1, stream)
  \/ \E code \in ExitCodes : ProcExit(1, code)
  \/ CompletionEvent(1)
  \/ \E failed \in BOOLEAN : ReadFileCallback(1, failed)
  \/ ErrorEvent(1)
  \/ HandleClosed(1)

Spec == Init /\ [][Next]_vars

\* Several calls of compileToString on the one options object, started in
\* sequence or overlapping, with compilers that write nothing to their
\* pipes.
CallsNext ==
  \/ \E c \in Calls : CallCompileToString(c)
  \/ \E c \in Calls : TempOpenFailed(c)
  \/ \E c \in Calls : TempOpened(c)
  \/ \E c \in Calls : \E code \in ExitCodes : ProcExit(c, code)
  \/ \E c \in Calls : CompletionEvent(c)
  \/ \E c \in Calls : \E failed \in BOOLEAN : ReadFileCallback(c, failed)
  \/ \E c \in Calls : ErrorEvent(c)

SpecCalls == Init /\ [][CallsNext]_vars

\* ------------------------------------------------------------------
\* Properties of argument synthesis
\* ------------------------------------------------------------------
ValidSources(s) == s.t \in {"string", "array"}
UnknownKeys(o) == { i \in 1..Len(o) : o[i].k \notin supportedOptions }
BadKeys(o) == { i \in UnknownKeys(o) : Truthy(o[i].v) }
Least(S) == CHOOSE i \in S : \A j \in S : i <= j
ExpectedMessage(key) ==
  IF key \in {"yes", "warn"} THEN RemovedMessage(key)
  ELSE IF key = "pathToMake" THEN RenamedMessage(key)
  ELSE UnrecognizedMessage(key)
Applied == ph \in {"args", "compile"}

\* C1 (as amended): with valid sources, a configuration in which some key
\* outside the recognized set carries a truthy value makes
\* prepareProcessArgs throw an Error whose message is the one of the
\* first such key in key order (migration text for yes, warn and
\* pathToMake, "unrecognized Elm compiler option: <key>" otherwise), and
\* makes compile throw an Error carrying that message JSON-quoted; a key
\* outside the set that carries a falsy value is ignored.
C1_TruthyUnknownKeyThrows ==
  (Applied /\ ValidSources(arg.sources)) =>
    IF BadKeys(arg.options) # {}
    THEN LET m == ExpectedMessage(arg.options[Least(BadKeys(arg.options))].k)
         IN /\ ret.threw
            /\ ret.err = IF ph = "args" THEN ErrorObj(m) ELSE ErrorObj(JsonStringify(m))
    ELSE ~ret.threw

C1_Witness ==
  /\ ph = "compile" /\ ValidSources(arg.sources) /\ ret.threw
  /\ Len(arg.options) = 2
  /\ UnknownKeys(arg.options) = {1, 2} /\ BadKeys(arg.options) = {2}

\* C1 (as stated): every configuration that contains a key outside the
\* recognized set is rejected with the message of such a key, whatever
\* value the key carries.
C1_AnyUnknownKeyThrows ==
  (Applied /\ ValidSources(arg.sources) /\ UnknownKeys(arg.options) # {}) =>
    /\ ret.threw
    /\ \E i \in UnknownKeys(arg.options) :
         ret.err.msg \in { ExpectedMessage(arg.options[i].k),
                           JsonStringify(ExpectedMessage(arg.options[i].k)) }

FlagTokens(pair) ==
  IF ~Truthy(pair.v) THEN <<>>
  ELSE CASE pair.k = "help" -> <<Str("--help")>>
         [] pair.k = "debug" -> <<Str("--debug")>>
         [] pair.k = "optimize" -> <<Str("--optimize")>>
         [] pair.k = "output" -> <<Str("--output"), pair.v.v[1]>>
         [] pair.k = "report" -> <<Str("--report"), pair.v.v[1]>>
         [] pair.k = "docs" -> <<Str("--docs"), pair.v.v[1]>>
         [] pair.k = "runtimeOptions" -> <<Str("+RTS")>> \o pair.v.v \o <<Str("-RTS")>>
         [] OTHER -> <<>>
RECURSIVE TokensInKeyOrder(_, _)
TokensInKeyOrder(o, n) ==
  IF n = 0 THEN <<>> ELSE TokensInKeyOrder(o, n - 1) \o FlagTokens(o[n])
RuntimeBlock(o) == FlagTokens([k |-> "runtimeOptions", v |-> Get(o, "runtimeOptions")])
LastTokens(seq, n) == SubSeq(seq, Len(seq) - n + 1, Len(seq))

\* C4 (as amended): for valid sources and a configuration without a truthy
\* unrecognized key, the argument list is make, the sources in their
\* order, then the tokens of every truthy flag option in the key order of
\* the configuration; the block +RTS, the N runtime tokens, -RTS stands
\* where the runtimeOptions key stands in that order, so it is last only
\* when no truthy flag option follows runtimeOptions.
C4_TokensInKeyOrder ==
  (Applied /\ ValidSources(arg.sources) /\ BadKeys(arg.options) = {}) =>
    /\ ~ret.threw
    /\ ret.val = <<Str("make")>> \o arg.sources.v
                   \o TokensInKeyOrder(arg.options, Len(arg.options))

C4_Witness ==
  /\ ph = "args" /\ ~ret.threw /\ arg.sources = ArrV(<<AElm, BElm>>)
  /\ Len(arg.options) = 2
  /\ arg.options[1].k = "runtimeOptions" /\ Len(arg.options[1].v.v) = 2
  /\ arg.options[2].k = "output"
  /\ LastTokens(ret.val, 2) = <<Str("--output"), <<"out", ".", "js">> >>

\* C4 (as stated): for valid sources and recognized options in any key
\* order, the list is make, the sources, the other flags, and the runtime
\* block comes last.
C4_RuntimeBlockLast ==
  (Applied /\ ValidSources(arg.sources) /\ UnknownKeys(arg.options) = {}) =>
    /\ ~ret.threw
    /\ ret.val[1] = Str("make")
    /\ SubSeq(ret.val, 2, 1 + Len(arg.sources.v)) = arg.sources.v
    /\ Truthy(Get(arg.options, "runtimeOptions")) =>
         LastTokens(ret.val, Len(RuntimeBlock(arg.options))) = RuntimeBlock(arg.options)

\* ------------------------------------------------------------------
\* Properties of error classification
\* ------------------------------------------------------------------
IsObject(e) == e.t \in {"Error", "object"}
NotFoundText(p) == <<"Could not find Elm compiler \"">> \o p \o <<"\". Is it installed?">>
NoPermissionText(p) ==
  <<"Elm compiler \"">> \o p
  \o <<"\" did not have permission to run. Do you need to give it executable permissions?">>
GenericText(p) ==
  <<"Exception thrown when attempting to run Elm compiler ">> \o <<"\"">>
  \o [i \in 1..Len(p) |-> IF p[i] = "\"" THEN "\\\"" ELSE p[i]] \o <<"\"">>
QuotedMessage(m) ==
  <<"\"">> \o [i \in 1..Len(m) |-> IF m[i] = "\"" THEN "\\\"" ELSE m[i]] \o <<"\"">>

\* C8 (as amended): compilerErrorToString has five textual outcomes and
\* one failure: code ENOENT gives the could-not-find text, code EACCES the
\* no-permission text, any other string code gives "Error attempting to
\* run Elm compiler <path>:" followed by the stringified error (whether or
\* not the error has a message), an object without a string code but with
\* a string message gives the JSON-quoted message, null makes the
\* function throw a TypeError, and anything else gives the generic text.
C8_FiveOutcomes ==
  (ph = "classified") =>
    LET e == arg.err
        p == arg.path
    IN IF e.t = "null" THEN ret.threw
       ELSE /\ ~ret.threw
            /\ ret.val =
                 IF IsObject(e) /\ e.code = "ENOENT" THEN NotFoundText(p)
                 ELSE IF IsObject(e) /\ e.code = "EACCES" THEN NoPermissionText(p)
                 ELSE IF IsObject(e) /\ e.hasCode
                 THEN <<"Error attempting to run Elm compiler \"">> \o p \o <<"\":\n">>
                      \o (IF e.t = "Error" THEN <<"Error", ": ">> \o e.msg
                          ELSE <<"[object Object]">>)
                 ELSE IF IsObject(e) /\ e.hasMsg THEN QuotedMessage(e.msg)
                 ELSE GenericText(p)

C8_Witness ==
  /\ ph = "classified" /\ ~ret.threw
  /\ arg.err.t = "Error" /\ arg.err.code = "EPERM" /\ arg.err.hasMsg
  /\ ret.val[1] = "Error attempting to run Elm compiler \""

\* C8 (as stated): exactly four outcomes; every error object with a
\* string message and a code other than ENOENT and EACCES gives the
\* stringified message, and anything else gives the generic text.
C8_FourOutcomes ==
  (ph = "classified") =>
    LET e == arg.err
        p == arg.path
    IN /\ ~ret.threw
       /\ ret.val =
            IF IsObject(e) /\ e.code = "ENOENT" THEN NotFoundText(p)
            ELSE IF IsObject(e) /\ e.code = "EACCES" THEN NoPermissionText(p)
            ELSE IF IsObject(e) /\ e.hasMsg THEN QuotedMessage(e.msg)
            ELSE GenericText(p)

\* ------------------------------------------------------------------
\* Properties of the entry points
\* ------------------------------------------------------------------
RECURSIVE Flatten(_)
Flatten(chunks) == IF chunks = <<>> THEN EmptyStr ELSE Head(chunks) \o Flatten(Tail(chunks))

Capture(c) == call[c].kind = "compileToString"
ReadError == ErrorObj(<<"readFile failed">>)

\* C2: once the close handler of compileToString has run, the promise is
\* settled exactly once by the exit code: a non-zero code rejects with
\* "Compilation failed" followed by the combined buffer and the temp file
\* is not read; code 0 reads the temp file and resolves with the text the
\* compiler wrote there, or rejects with the read error.
C2_SettledByExitCode ==
  \A c \in Calls :
    (Capture(c) /\ call[c].classified) =>
      IF call[c].exitCode # 0
      THEN /\ call[c].pc = "done" /\ call[c].settled = 1
           /\ call[c].promise = "rejected"
           /\ call[c].reason =
                ErrorObj(<<"Compilation failed", "\n">> \o Flatten(call[c].arrivedAtClass))
           /\ call[c].readPath = EmptyStr
      ELSE /\ call[c].readPath = call[c].info
           /\ IF call[c].pc = "done"
              THEN /\ call[c].settled = 1
                   /\ \/ call[c].promise = "resolved" /\ call[c].value = artifact(c)
                      \/ call[c].promise = "rejected" /\ call[c].reason = ReadError
              ELSE call[c].settled = 0 /\ call[c].promise = "pending"

C2_Witness ==
  /\ Capture(1) /\ call[1].pc = "done" /\ call[1].exitCode = -1
  /\ call[1].promise = "rejected" /\ Len(call[1].arrivedAtClass) = 2

\* C3: compileToStringSync throws whenever the compiler process exited
\* with a non-zero code or could not be started, and returns the temp
\* file's text only when the process exited with code 0.
C3_SyncThrowsOnFailure ==
  \A c \in Calls :
    (call[c].kind = "compileToStringSync" /\ call[c].pc = "done") =>
      /\ (call[c].inv.spawn /\ call[c].exitCode # 0) => call[c].threw
      /\ call[c].returned = "string" => call[c].exitCode = 0

\* C5: when the compiler process of a compileToString call cannot be
\* started, whether the spawn facility throws or the handle emits
\* 'error', no exception escapes the promise, the promise never resolves,
\* and once nothing more can happen for the call it is rejected.
C5_SpawnFailureRejects ==
  \A c \in Calls :
    (Capture(c) /\ call[c].failed) =>
      /\ ~uncaught
      /\ call[c].promise # "resolved"
      /\ call[c].proc \in {"none", "errored"} => call[c].promise = "rejected"

ConfigError == ~ValidSources(srcs) \/ BadKeys(opts) # {}

\* C6: with an unrecognized or legacy option key of truthy value, or with
\* sources that are neither a string nor an array, no entry point ever
\* calls the process-execution function; compile, compileSync and
\* compileToStringSync end by throwing an Error synchronously and
\* compileToString ends by rejecting its promise with an Error.
C6_ConfigErrorBeforeSpawn ==
  \A c \in Calls :
    (ConfigError /\ call[c].kind # "none") =>
      /\ ~call[c].inv.spawn
      /\ call[c].proc = "none"
      /\ IF Capture(c)
         THEN /\ ~call[c].threw
              /\ call[c].pc = "done" =>
                   (call[c].promise = "rejected" /\ call[c].reason.t = "Error")
         ELSE call[c].pc = "done" /\ call[c].threw /\ call[c].reason.t = "Error"

C6_Witness ==
  /\ Capture(1) /\ call[1].pc = "done" /\ call[1].info # EmptyStr
  /\ BadKeys(opts) # {} /\ ValidSources(srcs)
  /\ call[1].promise = "rejected"
  /\ call[1].reason = ErrorObj(JsonStringify(UnrecognizedMessage("foo")))

\* C7: the function the caller puts in options.spawn is the one compile
\* invokes, and when that value is not callable compile throws without
\* starting a process.
C7_CallerSpawnIsBound ==
  \A c \in Calls :
    (call[c].kind = "compile" /\ call[c].pc # "idle") =>
      /\ (Get(opts, "spawn").t = "function" /\ call[c].inv.spawn) =>
           call[c].inv.fn = Get(opts, "spawn").v[1]
      /\ Get(opts, "spawn").t \notin {"function", "undefined"} =>
           (call[c].threw /\ ~call[c].inv.spawn)

\* C9: in calls of compileToString that share one options object, each
\* call that reaches its compiler gets a temp file no other call has,
\* gives exactly that path as --output, reads back that path only, uses
\* the suffix the first call chose, and, when its compiler exits with 0
\* and the read succeeds, resolves with the text its own compiler wrote.
C9_OwnTempFile ==
  \A c \in Calls :
    (Capture(c) /\ call[c].pc # "idle") =>
      /\ call[c].suffix = call[1].suffix
      /\ call[c].inv.spawn =>
           /\ outputArg(call[c].inv.args) = call[c].info
           /\ extname(call[c].info) = call[1].suffix
           /\ \A d \in Calls \ {c} : call[d].info # call[c].info
      /\ call[c].readPath # EmptyStr => call[c].readPath = call[c].info
      /\ (call[c].pc = "done" /\ call[c].proc = "exited" /\ call[c].exitCode = 0) =>
           \/ call[c].promise = "resolved" /\ call[c].value = artifact(c)
           \/ call[c].promise = "rejected" /\ call[c].reason = ReadError

C9_Witness ==
  /\ MaxCalls >= 2
  /\ Capture(1) /\ Capture(2)
  /\ call[1].suffix = <<".", "html">>
  /\ call[1].pc = "reading" /\ call[1].info = tempPath(2, <<".", "html">>)
  /\ call[2].pc = "done" /\ call[2].promise = "resolved"
  /\ call[2].info = tempPath(1, <<".", "html">>)
  /\ Get(opts, "output") = StrV(call[1].info)

\* C10: when compileToString classifies the run, its buffer is the
\* concatenation, in arrival order, of every chunk the process wrote on
\* either stream, and the buffer never changes afterwards.
C10_BufferCompleteAtClose ==
  \A c \in Calls :
    (Capture(c) /\ call[c].classified) =>
      /\ call[c].atClass = Flatten(call[c].arrivedAtClass)
      /\ Len(call[c].arrivedAtClass) = call[c].emitted
      /\ call[c].pipeOut = <<>> /\ call[c].pipeErr = <<>>
      /\ call[c].output = call[c].atClass
      /\ (call[c].pc = "done" /\ call[c].exitCode # 0) =>
           call[c].reason.msg = <<"Compilation failed", "\n">> \o Flatten(call[c].arrived)

C10_Witness ==
  /\ Capture(1) /\ call[1].classified /\ call[1].exitCode = 1
  /\ call[1].arrived = <<Str("2"), Str("1")>>
  /\ call[1].output = <<"2", "1">>

====
